---------------------------- MODULE Spec2Model ----------------------------
(***************************************************************************)
(* CSV -> JSON converter (src/main.py): the field coercer cast_value, the  *)
(* worker loop process_row and the orchestrator process_csv_to_json with   *)
(* its queue, its four worker threads and its shared results list.         *)
(*                                                                         *)
(* Text is a sequence of one-character strings, so that parsing is         *)
(* computed from the characters.  Python values are tagged records.        *)
(***************************************************************************)
EXTENDS Integers, Sequences, FiniteSets, TLC

(***************************************************************************)
(* Bounds of the model.                                                    *)
(***************************************************************************)
MaxRows == 3
MaxTextLen == 2

(***************************************************************************)
(* Python values.                                                          *)
(***************************************************************************)
NoneV == [kind |-> "None"]
StrV(s) == [kind |-> "str", s |-> s]
IntV(n) == [kind |-> "int", n |-> n]
FloatV(m, e) == [kind |-> "float", mant |-> m, scale |-> e]
DateV(y, m, d) == [kind |-> "date", year |-> y, month |-> m, day |-> d]
DateTimeV(y, m, d, hh, mm, ss) ==
    [kind |-> "datetime", year |-> y, month |-> m, day |-> d,
     hour |-> hh, minute |-> mm, second |-> ss]

Digits == {"0", "1", "2", "3", "4", "5", "6", "7", "8", "9"}
DigitVal(c) ==
    CASE c = "0" -> 0 [] c = "1" -> 1 [] c = "2" -> 2 [] c = "3" -> 3
      [] c = "4" -> 4 [] c = "5" -> 5 [] c = "6" -> 6 [] c = "7" -> 7
      [] c = "8" -> 8 [] c = "9" -> 9

IsDigits(s) == Len(s) > 0 /\ \A i \in 1..Len(s) : s[i] \in Digits

RECURSIVE DigitsVal(_)
DigitsVal(s) ==
    IF s = <<>> THEN 0
    ELSE DigitsVal(SubSeq(s, 1, Len(s) - 1)) * 10 + DigitVal(s[Len(s)])

RECURSIVE LStrip(_)
LStrip(s) == IF s # <<>> /\ s[1] = " " THEN LStrip(Tail(s)) ELSE s
RECURSIVE RStrip(_)
RStrip(s) ==
    IF s # <<>> /\ s[Len(s)] = " " THEN RStrip(SubSeq(s, 1, Len(s) - 1)) ELSE s
Strip(s) == RStrip(LStrip(s))

Unsigned(t) == IF t # <<>> /\ t[1] \in {"+", "-"} THEN Tail(t) ELSE t
SignOf(t) == IF t # <<>> /\ t[1] = "-" THEN -1 ELSE 1

Parsed(v) == [ok |-> TRUE, val |-> v]
ParseFailure(msg, s) == [ok |-> FALSE, cause |-> [msg |-> msg, text |-> s]]

(***************************************************************************)
(* int(value) on a str: surrounding whitespace and one sign are accepted,  *)
(* then decimal digits; anything else raises ValueError.                   *)
(***************************************************************************)
ParseInt(s) ==
    LET t == Strip(s)
        body == Unsigned(t)
    IN  IF IsDigits(body)
        THEN Parsed(IntV(SignOf(t) * DigitsVal(body)))
        ELSE ParseFailure("invalid literal for int() with base 10", s)

(***************************************************************************)
(* float(value) on a str: whitespace, sign, digits with at most one point  *)
(* and at least one digit.  The value is mant / 10^scale, normalised.      *)
(***************************************************************************)
PointAt(body) ==
    IF \E i \in 1..Len(body) : body[i] = "."
    THEN CHOOSE i \in 1..Len(body) :
            body[i] = "." /\ \A j \in 1..(i - 1) : body[j] # "."
    ELSE 0

RECURSIVE Normalise(_, _)
Normalise(m, e) ==
    IF e > 0 /\ m % 10 = 0 THEN Normalise(m \div 10, e - 1) ELSE FloatV(m, e)

ParseFloat(s) ==
    LET t == Strip(s)
        body == Unsigned(t)
        p == PointAt(body)
        ip == IF p = 0 THEN body ELSE SubSeq(body, 1, p - 1)
        fp == IF p = 0 THEN <<>> ELSE SubSeq(body, p + 1, Len(body))
        wellFormed == /\ ip \o fp # <<>>
                      /\ \A i \in 1..Len(ip) : ip[i] \in Digits
                      /\ \A i \in 1..Len(fp) : fp[i] \in Digits
    IN  IF wellFormed
        THEN Parsed(Normalise(SignOf(t) * DigitsVal(ip \o fp), Len(fp)))
        ELSE ParseFailure("could not convert string to float", s)

(***************************************************************************)
(* datetime.strptime(value, format).  The format is read into items: the   *)
(* directives %Y %m %d %H %M %S, "%%", runs of blanks (one or more blanks  *)
(* of the text) and literal characters.  Formats are assumed not to repeat *)
(* a directive.  Alternatives of a directive are tried in the order of the *)
(* library's regular expression, backtracking when the rest of the format  *)
(* does not match; text left over after the match is an error.             *)
(***************************************************************************)
Directives == {"Y", "m", "d", "H", "M", "S"}

RECURSIVE FormatItems(_)
FormatItems(f) ==
    IF f = <<>> THEN <<>>
    ELSE IF f[1] = "%"
         THEN IF Len(f) = 1 THEN << [t |-> "stray"] >>
              ELSE IF f[2] = "%"
                   THEN << [t |-> "lit", c |-> "%"] >> \o FormatItems(SubSeq(f, 3, Len(f)))
                   ELSE IF f[2] \in Directives
                        THEN << [t |-> "dir", c |-> f[2]] >> \o FormatItems(SubSeq(f, 3, Len(f)))
                        ELSE << [t |-> "bad", c |-> f[2]] >>
         ELSE IF f[1] = " "
              THEN << [t |-> "ws"] >> \o FormatItems(LStrip(f))
              ELSE << [t |-> "lit", c |-> f[1]] >> \o FormatItems(Tail(f))

BadFormat(items) == \E i \in 1..Len(items) : items[i].t \in {"stray", "bad"}

TwoDigits(txt) == Len(txt) >= 2 /\ txt[1] \in Digits /\ txt[2] \in Digits
OneDigit(txt) == Len(txt) >= 1 /\ txt[1] \in Digits
Num2(txt) == DigitVal(txt[1]) * 10 + DigitVal(txt[2])

\* The prefix lengths of txt a directive can take, in order of preference.
CandTwo(txt, lo, hi) ==
    IF TwoDigits(txt) /\ Num2(txt) >= lo /\ Num2(txt) <= hi THEN <<2>> ELSE <<>>
CandOne(txt, lo) ==
    IF OneDigit(txt) /\ DigitVal(txt[1]) >= lo THEN <<1>> ELSE <<>>
CandBlank(txt) ==
    IF Len(txt) >= 2 /\ txt[1] = " " /\ txt[2] \in (Digits \ {"0"}) THEN <<2>> ELSE <<>>

Candidates(d, txt) ==
    CASE d = "Y" -> IF Len(txt) >= 4 /\ IsDigits(SubSeq(txt, 1, 4)) THEN <<4>> ELSE <<>>
      [] d = "m" -> CandTwo(txt, 1, 12) \o CandOne(txt, 1)
      [] d = "d" -> CandTwo(txt, 1, 31) \o CandOne(txt, 1) \o CandBlank(txt)
      [] d = "H" -> CandTwo(txt, 0, 23) \o CandOne(txt, 0)
      [] d = "M" -> CandTwo(txt, 0, 59) \o CandOne(txt, 0)
      [] d = "S" -> CandTwo(txt, 0, 61) \o CandOne(txt, 0)

NoMatch == [ok |-> FALSE]

RECURSIVE Match(_, _, _)
RECURSIVE TryLengths(_, _, _, _, _)
RECURSIVE FirstMatch(_, _, _, _, _, _)
\* items matched against a prefix of txt; got maps directives to numbers.
Match(items, txt, got) ==
    IF items = <<>> THEN [ok |-> TRUE, got |-> got, rest |-> txt]
    ELSE CASE items[1].t = "lit" ->
                IF txt # <<>> /\ txt[1] = items[1].c
                THEN Match(Tail(items), Tail(txt), got)
                ELSE NoMatch
           [] items[1].t = "ws" ->
                TryLengths(items[1],
                           [i \in 1..(Len(txt) - Len(LStrip(txt))) |->
                               Len(txt) - Len(LStrip(txt)) + 1 - i],
                           Tail(items), txt, got)
           [] items[1].t = "dir" ->
                TryLengths(items[1], Candidates(items[1].c, txt), Tail(items), txt, got)
           [] OTHER -> NoMatch

\* The item takes the first of the lengths lens with which the rest matches.
TryLengths(it, lens, items, txt, got) ==
    IF lens = <<>> THEN NoMatch
    ELSE FirstMatch(
            Match(items, SubSeq(txt, lens[1] + 1, Len(txt)),
                  IF it.t = "dir"
                  THEN [got EXCEPT ![it.c] = DigitsVal(Strip(SubSeq(txt, 1, lens[1])))]
                  ELSE got),
            it, lens, items, txt, got)

FirstMatch(r, it, lens, items, txt, got) ==
    IF r.ok THEN r ELSE TryLengths(it, Tail(lens), items, txt, got)

IsLeap(y) == (y % 4 = 0 /\ y % 100 # 0) \/ y % 400 = 0
DaysIn(y, m) ==
    IF m = 2 THEN (IF IsLeap(y) THEN 29 ELSE 28)
    ELSE IF m \in {4, 6, 9, 11} THEN 30 ELSE 31

StrptimeDefaults ==
    [c \in Directives |-> CASE c = "Y" -> 1900 [] c = "m" -> 1 [] c = "d" -> 1
                            [] OTHER -> 0]

\* The date-time built from a match r of the whole format.
StrptimeResult(s, r) ==
    IF ~r.ok THEN ParseFailure("time data does not match format", s)
    ELSE IF r.rest # <<>> THEN ParseFailure("unconverted data remains", s)
    ELSE IF r.got["Y"] < 1 THEN ParseFailure("year is out of range", s)
    ELSE IF r.got["d"] > DaysIn(r.got["Y"], r.got["m"])
         THEN ParseFailure("day is out of range for month", s)
    ELSE IF r.got["S"] > 59 THEN ParseFailure("second must be in 0..59", s)
    ELSE Parsed(DateTimeV(r.got["Y"], r.got["m"], r.got["d"],
                          r.got["H"], r.got["M"], r.got["S"]))

StrptimeItems(s, items) ==
    IF BadFormat(items) THEN ParseFailure("bad directive in format", s)
    ELSE StrptimeResult(s, Match(items, s, StrptimeDefaults))

strptime(s, f) == StrptimeItems(s, FormatItems(f))

\* datetime.date(): the calendar date of a date-time.
date(p) == IF p.ok THEN Parsed(DateV(p.val.year, p.val.month, p.val.day)) ELSE p

DefaultDateFormat == <<"%", "Y", "-", "%", "m", "-", "%", "d">>
DefaultDateTimeFormat ==
    <<"%", "Y", "-", "%", "m", "-", "%", "d", " ", "%", "H", ":", "%", "M", ":", "%", "S">>

(***************************************************************************)
(* cast_value(value, data_type, data_format, default, type_policy).        *)
(* value and data_format are NoneV or StrV(text); the result is a return   *)
(* of a value or a raised ValueError.                                      *)
(***************************************************************************)
Return(v) == [tag |-> "return", val |-> v]
Raise(value, data_type, cause) ==
    [tag |-> "raise",
     err |-> [exc |-> "ValueError", value |-> value, data_type |-> data_type,
              cause |-> cause]]

\* Variant: only an absent value takes the first branch.
IsEmpty_NoneOnly(value) == value = NoneV

IsEmpty(value) == value = NoneV \/ value = StrV(<<>>)
HasFormat(data_format) == data_format # NoneV /\ data_format # StrV(<<>>)

\* The try block of cast_value: the parse of a non-empty text.
Parse(s, data_type, data_format) ==
    CASE data_type = "int" -> ParseInt(s)
      [] data_type = "float" -> ParseFloat(s)
      [] data_type = "date" ->
            IF HasFormat(data_format) THEN date(strptime(s, data_format.s))
            ELSE date(strptime(s, DefaultDateFormat))
      [] data_type = "datetime" ->
            IF HasFormat(data_format) THEN strptime(s, data_format.s)
            ELSE strptime(s, DefaultDateTimeFormat)
      [] OTHER -> Parsed(StrV(s))

\* Variant: nullable is handled like flexible.
OnValueError_Lenient(value, data_type, type_policy, cause) ==
    IF type_policy \in {"flexible", "nullable"} THEN Return(value)
    ELSE Raise(value, data_type, cause)

\* The except branch: what a failed parse becomes under the type policy.
OnValueError(value, data_type, type_policy, cause) ==
    IF type_policy = "flexible" THEN Return(value)
    ELSE IF type_policy = "nullable" THEN Return(NoneV)
    ELSE Raise(value, data_type, cause)

\* The first branch: an empty or absent value.
OnEmpty(default, type_policy) ==
    IF type_policy = "nullable" THEN Return(NoneV) ELSE Return(default)

\* After the try block: the parsed value, or the except branch.
AfterParse(value, data_type, type_policy, p) ==
    IF p.ok THEN Return(p.val)
    ELSE OnValueError(value, data_type, type_policy, p.cause)

cast_value(value, data_type, data_format, default, type_policy) ==
    IF IsEmpty(value) THEN OnEmpty(default, type_policy)
    ELSE AfterParse(value, data_type, type_policy,
                    Parse(value.s, data_type, data_format))

(***************************************************************************)
(* The body of the worker loop of process_row for one row: the columns of  *)
(* yaml_config are coerced in order into the dict row_data; the first      *)
(* ValueError leaves the loop.  A dict is a function from its keys.        *)
(***************************************************************************)
ListV(items) == [kind |-> "list", items |-> items]
DictV(d) == [kind |-> "dict", d |-> d]
EmptyDict == [k \in {} |-> NoneV]

ColType(col) == IF "type" \in DOMAIN col THEN col.type ELSE "string"
ColFormat(col) == IF "format" \in DOMAIN col THEN col.format ELSE NoneV
ColDefault(col) == IF "default" \in DOMAIN col THEN col.default ELSE NoneV
ColPolicy(col) == IF "type_policy" \in DOMAIN col THEN col.type_policy ELSE "strict"

\* Variant: an index past the end reads the last field of the row.
ColValue_Clamped(row, col) ==
    IF col.index < Len(row) THEN StrV(row[col.index + 1])
    ELSE IF Len(row) > 0 THEN StrV(row[Len(row)]) ELSE NoneV

\* value = row[col_index] if col_index < len(row) else None
ColValue(row, col) == IF col.index < Len(row) THEN StrV(row[col.index + 1]) ELSE NoneV

CastColumn(row, col) ==
    cast_value(ColValue(row, col), ColType(col), ColFormat(col), ColDefault(col),
               ColPolicy(col))

RECURSIVE TransformFrom(_, _, _)
RECURSIVE AfterCast(_, _, _, _)
TransformFrom(row, columns, row_data) ==
    IF columns = <<>> THEN Return(DictV(row_data))
    ELSE AfterCast(row, columns, row_data, CastColumn(row, columns[1]))

\* row_data[field] = the value c returned, or the ValueError leaves the loop.
AfterCast(row, columns, row_data, c) ==
    IF c.tag = "raise" THEN c
    ELSE TransformFrom(row, Tail(columns), (columns[1].field :> c.val) @@ row_data)

TransformRow(row, columns) == TransformFrom(row, columns, EmptyDict)

(***************************************************************************)
(* State of one run of process_csv_to_json.                                *)
(***************************************************************************)
VARIABLES
    yaml_config,      \* the loaded configuration (a dict)
    rows,             \* the rows the reader yields after the first nprefix rows
    nprefix,          \* number of rows read and processed before the modelled part
    q,                \* queue.Queue: the items not yet taken, oldest first
    unfinished,       \* q.unfinished_tasks: puts not yet matched by task_done
    results,          \* the shared results list
    processed_rows,   \* the set of row tuples seen by the producer
    row_count,        \* rows read so far (also the next enumerate index)
    ignored_rows,
    unique_row_count,
    mainPc,           \* position of the main thread
    mainI,            \* loop counter of the two loops over threads
    mainError,        \* the exception that left process_csv_to_json, or NoneV
    wpc,              \* position of each worker thread
    wlocal,           \* locals of each worker thread: index, row, row_data
    output,           \* what json.dump was given, or NoneV when not called
    dispatched,       \* history: the enumerate indices put on the queue, in order
    taken,            \* history: the indices of the units q.get() returned, in order
    run,              \* 1 for the first run, 2 for a second run on the same input
    prevOutput,       \* the output of the first run, during the second
    job               \* a direct call of cast_value or of the row transformation

vars == <<yaml_config, rows, nprefix, q, unfinished, results, processed_rows,
          row_count, ignored_rows, unique_row_count, mainPc, mainI, mainError,
          wpc, wlocal, output, dispatched, taken, run, prevOutput, job>>

inputVars == <<yaml_config, rows, nprefix>>
producerVars == <<processed_rows, row_count, ignored_rows, unique_row_count>>
workerVars == <<wpc, wlocal>>
runVars == <<dispatched, taken, run, prevOutput, job>>

NumThreads == 4          \* for _ in range(4)
InitialCapacity == 100   \* results = [None] * 100
Threads == 1..NumThreads

(***************************************************************************)
(* The configuration of the modelled runs: two int columns, the second     *)
(* with a default; type_policy is left to its default, strict.             *)
(***************************************************************************)
Columns ==
    << [index |-> 0, field |-> "id", type |-> "int"],
       [index |-> 1, field |-> "qty", type |-> "int", default |-> IntV(0)] >>

BaseConfig == [header |-> FALSE, columns |-> Columns]
Configs ==
    { BaseConfig,
      [header |-> FALSE, columns |-> Columns, ignore_duplicates |-> FALSE],
      [header |-> FALSE, columns |-> Columns, ignore_duplicates |-> TRUE] }

\* Rows of the modelled inputs: two that coerce, one of them short, and one
\* that fails under strict in its first column.
RowA == << <<"1">>, <<"2">> >>
RowB == << <<"2">> >>
RowX == << <<"x">>, <<"1">> >>
RowAlphabet == {RowA, RowB, RowX}
PrefixRow == << <<"9">>, <<"9">> >>

RowSeqs == UNION { [1..n -> RowAlphabet] : n \in 0..MaxRows }

\* yaml_config.get('ignore_duplicates', False)
IgnoreDuplicates(cfg) ==
    IF "ignore_duplicates" \in DOMAIN cfg THEN cfg.ignore_duplicates ELSE FALSE

\* The row the reader yields at enumerate index i (0-based).
TotalRows == nprefix + Len(rows)
InputRow(i) == IF i < nprefix THEN PrefixRow ELSE rows[i - nprefix + 1]

Sentinel == [index |-> NoneV, row |-> NoneV]
Unit(i, row) == [index |-> i, row |-> ListV(row)]
NoLocals == [index |-> NoneV, row |-> NoneV, row_data |-> NoneV]

(***************************************************************************)
(* The start of the modelled part of a run.  With n = 0 it is the state    *)
(* after the threads are started and before the first row is read.  With   *)
(* n > 0 it is the state the run is in when the first n rows, all equal to *)
(* PrefixRow, have been read and every dispatched one has been processed   *)
(* and acknowledged: with duplicates ignored only row 0 was dispatched.    *)
(***************************************************************************)
PrefixAccepted(cfg, i) == i = 0 \/ IgnoreDuplicates(cfg) = FALSE
PrefixIndices(cfg, n) == {i \in 0..(n - 1) : PrefixAccepted(cfg, i)}

RECURSIVE Ascending(_, _)
\* The members of the set S of naturals below n, in increasing order.
Ascending(S, n) ==
    IF n = 0 THEN <<>>
    ELSE Ascending(S, n - 1) \o (IF (n - 1) \in S THEN <<n - 1>> ELSE <<>>)

StartResults(cfg, n) ==
    [k \in 1..InitialCapacity |->
        IF (k - 1) \in PrefixIndices(cfg, n)
        THEN TransformRow(PrefixRow, cfg.columns).val
        ELSE NoneV]

StartOfRun(cfg, n) ==
    [q |-> <<>>,
     unfinished |-> 0,
     results |-> StartResults(cfg, n),
     processed_rows |-> IF n > 0 THEN {PrefixRow} ELSE {},
     row_count |-> n,
     unique_row_count |-> Cardinality(PrefixIndices(cfg, n)),
     ignored_rows |-> n - Cardinality(PrefixIndices(cfg, n)),
     dispatched |-> Ascending(PrefixIndices(cfg, n), n),
     taken |-> Ascending(PrefixIndices(cfg, n), n)]

\* The queue, the results and the producer's variables have the values s.
AtStart(s) ==
    /\ q = s.q
    /\ unfinished = s.unfinished
    /\ results = s.results
    /\ processed_rows = s.processed_rows
    /\ row_count = s.row_count
    /\ unique_row_count = s.unique_row_count
    /\ ignored_rows = s.ignored_rows
    /\ dispatched = s.dispatched
    /\ taken = s.taken

NoJob == [op |-> "none"]

Init ==
    /\ yaml_config \in Configs
    /\ rows \in RowSeqs
    /\ nprefix \in {0, InitialCapacity}
    /\ AtStart(StartOfRun(yaml_config, nprefix))
    /\ mainPc = "produce"
    /\ mainI = 0
    /\ mainError = NoneV
    /\ wpc = [w \in Threads |-> "get"]
    /\ wlocal = [w \in Threads |-> NoLocals]
    /\ output = NoneV
    /\ run = 1
    /\ prevOutput = NoneV
    /\ job = NoJob

(***************************************************************************)
(* The producer: one iteration of the loop over enumerate(reader).         *)
(***************************************************************************)
\* Variant: the test of ignore_duplicates is missing.
Accepted_SeenOnly(row, seen, cfg) == row \notin seen

\* if row_tuple not in processed_rows or ignore_duplicates is False
Accepted(row, seen, cfg) == row \notin seen \/ IgnoreDuplicates(cfg) = FALSE

\* Variant: a skipped duplicate is counted as a unique row.
ReadRow_Miscount ==
    /\ mainPc = "produce"
    /\ row_count < TotalRows
    /\ LET index == row_count
           row == InputRow(index)
       IN  IF Accepted(row, processed_rows, yaml_config)
           THEN /\ processed_rows' = processed_rows \cup {row}
                /\ q' = Append(q, Unit(index, row))
                /\ unfinished' = unfinished + 1
                /\ unique_row_count' = unique_row_count + 1
                /\ dispatched' = Append(dispatched, index)
                /\ UNCHANGED ignored_rows
           ELSE /\ unique_row_count' = unique_row_count + 1
                /\ UNCHANGED <<processed_rows, q, unfinished, ignored_rows,
                               dispatched>>
    /\ row_count' = row_count + 1
    /\ UNCHANGED <<inputVars, results, mainPc, mainI, mainError, workerVars,
                   output, taken, run, prevOutput, job>>

\* for index, row in enumerate(reader): a row that is accepted is recorded
\* in processed_rows and put on the queue with its index, any other row is
\* counted in ignored_rows.
ReadRow ==
    /\ mainPc = "produce"
    /\ row_count < TotalRows
    /\ LET index == row_count
           row == InputRow(index)
       IN  IF Accepted(row, processed_rows, yaml_config)
           THEN /\ processed_rows' = processed_rows \cup {row}
                /\ q' = Append(q, Unit(index, row))
                /\ unfinished' = unfinished + 1
                /\ unique_row_count' = unique_row_count + 1
                /\ dispatched' = Append(dispatched, index)
                /\ UNCHANGED ignored_rows
           ELSE /\ ignored_rows' = ignored_rows + 1
                /\ UNCHANGED <<processed_rows, q, unfinished, unique_row_count,
                               dispatched>>
    /\ row_count' = row_count + 1
    /\ UNCHANGED <<inputVars, results, mainPc, mainI, mainError, workerVars,
                   output, taken, run, prevOutput, job>>

\* The reader raises while the producer asks it for the next row: the
\* exception leaves process_csv_to_json.
RowSourceRaises ==
    /\ mainPc = "produce"
    /\ mainPc' = "raised"
    /\ mainError' = [exc |-> "csv.Error"]
    /\ UNCHANGED <<inputVars, q, unfinished, results, producerVars, mainI,
                   workerVars, output, runVars>>

\* The reader is exhausted and q.join() returns: every put has been
\* matched by a task_done.
QueueJoin ==
    /\ mainPc = "produce"
    /\ row_count = TotalRows
    /\ unfinished = 0
    /\ mainPc' = "stop"
    /\ mainI' = 0
    /\ UNCHANGED <<inputVars, q, unfinished, results, producerVars, mainError,
                   workerVars, output, runVars>>

\* for _ in threads: q.put((None, None))
PutSentinel ==
    /\ mainPc = "stop"
    /\ q' = Append(q, Sentinel)
    /\ unfinished' = unfinished + 1
    /\ IF mainI + 1 = NumThreads
       THEN mainPc' = "join" /\ mainI' = 0
       ELSE mainPc' = mainPc /\ mainI' = mainI + 1
    /\ UNCHANGED <<inputVars, results, producerVars, mainError, workerVars,
                   output, runVars>>

\* Variant: join() returns at once, whether or not the thread has ended.
JoinThread_NoWait ==
    /\ mainPc = "join"
    /\ IF mainI + 1 = NumThreads
       THEN mainPc' = "write" /\ mainI' = 0
       ELSE mainPc' = mainPc /\ mainI' = mainI + 1
    /\ UNCHANGED <<inputVars, q, unfinished, results, producerVars, mainError,
                   workerVars, output, runVars>>

\* for t in threads: t.join() -- returns once thread t has ended, by
\* leaving its loop or by an exception.
JoinThread ==
    /\ mainPc = "join"
    /\ wpc[mainI + 1] \in {"exited", "dead"}
    /\ IF mainI + 1 = NumThreads
       THEN mainPc' = "write" /\ mainI' = 0
       ELSE mainPc' = mainPc /\ mainI' = mainI + 1
    /\ UNCHANGED <<inputVars, q, unfinished, results, producerVars, mainError,
                   workerVars, output, runVars>>

\* [row for row in results if row is not None]
RECURSIVE Compact(_)
Compact(rs) ==
    IF rs = <<>> THEN <<>>
    ELSE (IF rs[1] # NoneV THEN <<rs[1]>> ELSE <<>>) \o Compact(Tail(rs))

\* json.dump of the compacted results.
WriteOutput ==
    /\ mainPc = "write"
    /\ output' = ListV(Compact(results))
    /\ mainPc' = "done"
    /\ UNCHANGED <<inputVars, q, unfinished, results, producerVars, mainI,
                   mainError, workerVars, runVars>>

(***************************************************************************)
(* A worker thread running process_row.                                    *)
(***************************************************************************)
\* Variant: the failed unit is acknowledged (task_done in a finally clause).
WorkerRaises_Acks(w, item, err) ==
    /\ wpc' = [wpc EXCEPT ![w] = "dead"]
    /\ wlocal' = [wlocal EXCEPT ![w] =
          [index |-> item.index, row |-> item.row, row_data |-> NoneV, exc |-> err]]
    /\ unfinished' = unfinished - 1

\* A ValueError raised by cast_value is caught nowhere in process_row: the
\* thread ends with it, before results is touched and before q.task_done().
WorkerRaises(w, item, err) ==
    /\ wpc' = [wpc EXCEPT ![w] = "dead"]
    /\ wlocal' = [wlocal EXCEPT ![w] =
          [index |-> item.index, row |-> item.row, row_data |-> NoneV, exc |-> err]]
    /\ UNCHANGED unfinished

\* The columns loop has ended with t: the row_data, or a ValueError.
Transformed(w, item, t) ==
    IF t.tag = "raise"
    THEN WorkerRaises(w, item, t.err)
    ELSE /\ wpc' = [wpc EXCEPT ![w] = "check"]
         /\ wlocal' = [wlocal EXCEPT ![w] =
               [index |-> item.index, row |-> item.row, row_data |-> t.val]]
         /\ UNCHANGED unfinished

\* Variant: the item is read from the head of the queue and left there.
Get_Peek(w) ==
    /\ wpc[w] = "get"
    /\ q # <<>>
    /\ IF q[1].row = NoneV
       THEN /\ q' = Tail(q)
            /\ wpc' = [wpc EXCEPT ![w] = "exited"]
            /\ wlocal' = [wlocal EXCEPT ![w] = NoLocals]
            /\ UNCHANGED <<unfinished, taken>>
       ELSE /\ q' = q
            /\ Transformed(w, q[1], TransformRow(q[1].row.items, yaml_config.columns))
            /\ taken' = Append(taken, q[1].index)
    /\ UNCHANGED <<inputVars, results, producerVars, mainPc, mainI, mainError,
                   output, dispatched, run, prevOutput, job>>

\* index, row = q.get(); on the sentinel the loop is left, otherwise the
\* row is transformed; a ValueError ends the thread.
Get(w) ==
    /\ wpc[w] = "get"
    /\ q # <<>>
    /\ q' = Tail(q)
    /\ IF q[1].row = NoneV
       THEN /\ wpc' = [wpc EXCEPT ![w] = "exited"]
            /\ wlocal' = [wlocal EXCEPT ![w] = NoLocals]
            /\ UNCHANGED <<unfinished, taken>>
       ELSE /\ Transformed(w, q[1], TransformRow(q[1].row.items, yaml_config.columns))
            /\ taken' = Append(taken, q[1].index)
    /\ UNCHANGED <<inputVars, results, producerVars, mainPc, mainI, mainError,
                   output, dispatched, run, prevOutput, job>>

\* if index < len(results)
CheckIndex(w) ==
    /\ wpc[w] = "check"
    /\ wpc' = [wpc EXCEPT ![w] =
                 IF wlocal[w].index < Len(results) THEN "assign" ELSE "append"]
    /\ UNCHANGED <<inputVars, q, unfinished, results, producerVars, mainPc,
                   mainI, mainError, wlocal, output, runVars>>

\* Variant: the record is stored and q.task_done() is not called.
Store_NoAck(w) ==
    /\ wpc[w] \in {"assign", "append"}
    /\ results' = IF wpc[w] = "assign"
                  THEN [results EXCEPT ![wlocal[w].index + 1] = wlocal[w].row_data]
                  ELSE Append(results, wlocal[w].row_data)
    /\ unfinished' = unfinished
    /\ wpc' = [wpc EXCEPT ![w] = "get"]
    /\ wlocal' = [wlocal EXCEPT ![w] = NoLocals]
    /\ UNCHANGED <<inputVars, q, producerVars, mainPc, mainI, mainError, output,
                   runVars>>

\* results[index] = row_data, or results.append(row_data); then
\* q.task_done() and back to q.get().
Store(w) ==
    /\ wpc[w] \in {"assign", "append"}
    /\ results' = IF wpc[w] = "assign"
                  THEN [results EXCEPT ![wlocal[w].index + 1] = wlocal[w].row_data]
                  ELSE Append(results, wlocal[w].row_data)
    /\ unfinished' = unfinished - 1
    /\ wpc' = [wpc EXCEPT ![w] = "get"]
    /\ wlocal' = [wlocal EXCEPT ![w] = NoLocals]
    /\ UNCHANGED <<inputVars, q, producerVars, mainPc, mainI, mainError, output,
                   runVars>>

Next ==
    \/ ReadRow
    \/ RowSourceRaises
    \/ QueueJoin
    \/ PutSentinel
    \/ JoinThread
    \/ WriteOutput
    \/ \E w \in Threads : Get(w)
    \/ \E w \in Threads : CheckIndex(w)
    \/ \E w \in Threads : Store(w)

Spec == Init /\ [][Next]_vars

(***************************************************************************)
(* The threads are scheduled fairly; the reader need not raise.            *)
(***************************************************************************)
Fairness ==
    /\ WF_vars(ReadRow)
    /\ WF_vars(QueueJoin)
    /\ WF_vars(PutSentinel)
    /\ WF_vars(JoinThread)
    /\ WF_vars(WriteOutput)
    /\ \A w \in Threads : WF_vars(Get(w)) /\ WF_vars(CheckIndex(w)) /\ WF_vars(Store(w))

FairSpec == Init /\ [][Next]_vars /\ Fairness

(***************************************************************************)
(* The same program on shorter inputs, for the termination of whole runs.  *)
(* The scheduler is only assumed to run some thread that can take a step,  *)
(* which a scheduler that is fair to every thread does; the reader need    *)
(* not raise.                                                              *)
(***************************************************************************)
MaxLiveRows == 2

LiveRowSeqs == UNION { [1..n -> RowAlphabet] : n \in 0..MaxLiveRows }

InitLive ==
    /\ yaml_config \in Configs
    /\ rows \in LiveRowSeqs
    /\ nprefix \in {0, InitialCapacity}
    /\ AtStart(StartOfRun(yaml_config, nprefix))
    /\ mainPc = "produce"
    /\ mainI = 0
    /\ mainError = NoneV
    /\ wpc = [w \in Threads |-> "get"]
    /\ wlocal = [w \in Threads |-> NoLocals]
    /\ output = NoneV
    /\ run = 1
    /\ prevOutput = NoneV
    /\ job = NoJob

\* A step of the orchestrator or of a worker; the reader's raising is none.
ThreadStep ==
    \/ ReadRow
    \/ QueueJoin
    \/ PutSentinel
    \/ JoinThread
    \/ WriteOutput
    \/ \E w \in Threads : Get(w) \/ CheckIndex(w) \/ Store(w)

LiveSpec == InitLive /\ [][Next]_vars /\ WF_vars(ThreadStep)

(***************************************************************************)
(* Two runs on the same rows and the same configuration: when the first    *)
(* run has written its output, the program is started again.               *)
(***************************************************************************)
Restart(s) ==
    /\ q' = s.q
    /\ unfinished' = s.unfinished
    /\ results' = s.results
    /\ processed_rows' = s.processed_rows
    /\ row_count' = s.row_count
    /\ unique_row_count' = s.unique_row_count
    /\ ignored_rows' = s.ignored_rows
    /\ dispatched' = s.dispatched
    /\ taken' = s.taken

Rerun ==
    /\ run = 1
    /\ mainPc = "done"
    /\ run' = 2
    /\ prevOutput' = output
    /\ Restart(StartOfRun(yaml_config, nprefix))
    /\ mainPc' = "produce"
    /\ mainI' = 0
    /\ mainError' = NoneV
    /\ wpc' = [w \in Threads |-> "get"]
    /\ wlocal' = [w \in Threads |-> NoLocals]
    /\ output' = NoneV
    /\ UNCHANGED <<inputVars, job>>

NextTwice == Next \/ Rerun

SpecTwice == Init /\ [][NextTwice]_vars

(***************************************************************************)
(* Direct calls of cast_value and of the row transformation on inputs      *)
(* drawn from bounded sets; no run of the pipeline is in progress.         *)
(***************************************************************************)
MaxIndex == 2

CharSet == {"7", "-", ".", "x", " ", "/"}
Texts == UNION { [1..n -> CharSet] : n \in 0..MaxTextLen }
SampleTexts ==
    { <<"2", "0", "2", "3", "-", "0", "1", "-", "0", "2">>,
      <<"2", "0", "2", "3", "-", "0", "2", "-", "3", "0">>,
      <<"0", "1", "/", "0", "2", "/", "2", "0", "2", "3">>,
      <<"2", "0", "2", "3", "-", "0", "1", "-", "0", "2", " ",
        "1", "0", ":", "3", "0", ":", "0", "0">> }
RawValues == {NoneV} \cup { StrV(t) : t \in Texts \cup SampleTexts }

DataTypes == {"int", "float", "date", "datetime", "string", "bool"}
ParsedTypes == {"int", "float", "date", "datetime"}
Formats ==
    { NoneV, StrV(<<>>),
      StrV(<<"%", "m", "/", "%", "d", "/", "%", "Y">>),
      StrV(<<"%", "d">>) }
Defaults == { NoneV, IntV(0), StrV(<<"n", "/", "a">>) }
Policies == {"strict", "flexible", "nullable"}

Pending == [tag |-> "pending"]

CastJobs ==
    [op : {"cast_value"}, value : RawValues, data_type : DataTypes,
     data_format : Formats, default : Defaults, type_policy : Policies,
     out : {Pending}]

\* Column rules as dicts: 'default' and 'type_policy' may be missing.
ColumnRules(field) ==
    { [index |-> i, field |-> field, type |-> t] @@ d @@ p :
        i \in 0..MaxIndex, t \in {"int", "string"},
        d \in {EmptyDict, [default |-> IntV(0)]},
        p \in {EmptyDict, [type_policy |-> "flexible"], [type_policy |-> "nullable"]} }

ColumnLists ==
    { <<c>> : c \in ColumnRules("a") }
      \cup { <<c, d>> : c \in { r \in ColumnRules("a") : r.index = 0 /\ r.type = "int" },
                        d \in ColumnRules("b") }

JobRows == UNION { [1..n -> {<<>>, <<"7">>, <<"x">>}] : n \in 0..2 }

RowJobs == [op : {"process_row"}, row : JobRows, columns : ColumnLists, out : {Pending}]

InitPure ==
    /\ job \in CastJobs \cup RowJobs
    /\ yaml_config = BaseConfig
    /\ rows = <<>>
    /\ nprefix = 0
    /\ AtStart(StartOfRun(yaml_config, nprefix))
    /\ mainPc = "idle"
    /\ mainI = 0
    /\ mainError = NoneV
    /\ wpc = [w \in Threads |-> "idle"]
    /\ wlocal = [w \in Threads |-> NoLocals]
    /\ output = NoneV
    /\ run = 1
    /\ prevOutput = NoneV

pipelineVars == <<yaml_config, rows, nprefix, q, unfinished, results,
                  processed_rows, row_count, ignored_rows, unique_row_count,
                  mainPc, mainI, mainError, wpc, wlocal, output, dispatched,
                  taken, run, prevOutput>>

CallCastValue ==
    /\ job.op = "cast_value"
    /\ job.out = Pending
    /\ job' = [job EXCEPT !.out = cast_value(job.value, job.data_type,
                                             job.data_format, job.default,
                                             job.type_policy)]
    /\ UNCHANGED pipelineVars

CallTransformRow ==
    /\ job.op = "process_row"
    /\ job.out = Pending
    /\ job' = [job EXCEPT !.out = TransformRow(job.row, job.columns)]
    /\ UNCHANGED pipelineVars

NextPure == CallCastValue \/ CallTransformRow

PureSpec == InitPure /\ [][NextPure]_vars

(***************************************************************************)
(* Properties.                                                             *)
(***************************************************************************)
AnyWorkerFailed == \E w \in Threads : wpc[w] = "dead"
OutputWritten == output # NoneV
JobDone == job.op # "none" /\ job.out # Pending

\* The records of the dispatched rows, in the order of the input.
ExpectedRecords ==
    [k \in 1..Len(dispatched) |->
        TransformRow(InputRow(dispatched[k]), yaml_config.columns).val]

\* C1: when a run has written its output, the output lists the records of
\* the accepted rows in the order of those rows in the input, whatever the
\* number of rows and the interleaving of the workers.
C1_OutputInInputOrder ==
    mainPc = "done" => output.items = ExpectedRecords

\* C2: under fair scheduling, once a strict coercion has failed in a
\* worker the run eventually ends failed, with the parse error raised out
\* of the orchestrator.
C2_FailureReachesOrchestrator ==
    AnyWorkerFailed ~> (mainPc = "raised" /\ mainError.exc = "ValueError")

\* C3: in a run in which a strict coercion has failed in a worker, the
\* output is not written.
C3_NoOutputAfterFailure ==
    AnyWorkerFailed => ~OutputWritten /\ mainPc \notin {"write", "done"}

\* A worker has failed, every row has been read, the other workers wait on
\* the empty queue and the orchestrator waits in q.join().
C3_Witness ==
    /\ AnyWorkerFailed
    /\ mainPc = "produce"
    /\ row_count = TotalRows
    /\ q = <<>>
    /\ unfinished > 0
    /\ \A w \in Threads : wpc[w] \in {"get", "dead"}

\* C4: a second run on the same rows and configuration writes the same
\* output as the first, whatever the scheduling of the two runs.
C4_SameOutputTwice ==
    run = 2 /\ mainPc = "done" => output = prevOutput

\* The positions below n of the rows that equal no earlier row.
FirstOccurrences(n) ==
    {i \in 0..(n - 1) : \A j \in 0..(i - 1) : InputRow(j) # InputRow(i)}

\* C5: with ignore_duplicates enabled, the rows dispatched so far are
\* exactly the first occurrences among the rows read, every other row read
\* has incremented ignored_rows, and a written output holds one record per
\* distinct row.
C5_DedupFirstOccurrences ==
    IgnoreDuplicates(yaml_config) = TRUE =>
        LET first == FirstOccurrences(row_count)
        IN  /\ Len(dispatched) = Cardinality(first)
            /\ \A k \in 1..Len(dispatched) : dispatched[k] \in first
            /\ \A k \in 1..(Len(dispatched) - 1) : dispatched[k] < dispatched[k + 1]
            /\ ignored_rows = row_count - Cardinality(first)
            /\ mainPc = "done" =>
                  Len(output.items) = Cardinality({InputRow(i) : i \in 0..(TotalRows - 1)})

\* C6: with ignore_duplicates false or not configured, every row read has
\* been dispatched and ignored_rows is 0.
C6_NoDedupWhenDisabled ==
    IgnoreDuplicates(yaml_config) = FALSE =>
        /\ ignored_rows = 0
        /\ Len(dispatched) = row_count
        /\ \A k \in 1..Len(dispatched) : dispatched[k] = k - 1

\* All rows have been read without ignore_duplicates, two of them equal.
C6_Witness ==
    /\ IgnoreDuplicates(yaml_config) = FALSE
    /\ mainPc = "produce"
    /\ Len(rows) >= 2
    /\ rows[1] = rows[2]
    /\ row_count = TotalRows

\* C7 as stated: for an empty or absent value the result is null if and
\* only if the policy is nullable, and is the default otherwise.
C7_NullIffNullable ==
    JobDone /\ job.op = "cast_value" /\ (job.value = NoneV \/ job.value = StrV(<<>>)) =>
        /\ job.out.tag = "return"
        /\ job.out.val = NoneV <=> job.type_policy = "nullable"
        /\ job.type_policy # "nullable" => job.out.val = job.default

\* C7 amended: for an empty or absent value, whatever the type and the
\* format, the result is null under nullable and the default otherwise (a
\* missing default being null); the call does not fail.
C7_EmptyValue ==
    JobDone /\ job.op = "cast_value" /\ (job.value = NoneV \/ job.value = StrV(<<>>)) =>
        job.out = Return(IF job.type_policy = "nullable" THEN NoneV ELSE job.default)

\* The empty string coerced as a strict int with default 0.
C7_Witness ==
    /\ JobDone
    /\ job.op = "cast_value"
    /\ job.value = StrV(<<>>)
    /\ job.data_type = "int"
    /\ job.type_policy = "strict"
    /\ job.default = IntV(0)
    /\ job.out = Return(IntV(0))

\* C8: a non-empty value that does not parse as int, float, date or
\* datetime comes back unchanged under flexible, as null under nullable,
\* and raises under strict.
C8_ParseFailurePolicy ==
    /\ JobDone
    /\ job.op = "cast_value"
    /\ job.value \notin {NoneV, StrV(<<>>)}
    /\ job.data_type \in ParsedTypes
    /\ ~Parse(job.value.s, job.data_type, job.data_format).ok
    => CASE job.type_policy = "flexible" -> job.out = Return(job.value)
         [] job.type_policy = "nullable" -> job.out = Return(NoneV)
         [] OTHER -> /\ job.out.tag = "raise"
                     /\ job.out.err.value = job.value
                     /\ job.out.err.data_type = job.data_type

\* "x" coerced as a nullable int with default 0 gives null.
C8_Witness ==
    /\ JobDone
    /\ job.op = "cast_value"
    /\ job.value = StrV(<<"x">>)
    /\ job.data_type = "int"
    /\ job.type_policy = "nullable"
    /\ job.default = IntV(0)
    /\ job.out = Return(NoneV)

\* The first column of the row whose coercion raises.
Raises(row, col) == CastColumn(row, col).tag = "raise"
FailingColumn(row, columns) ==
    columns[CHOOSE k \in 1..Len(columns) :
                Raises(row, columns[k]) /\ \A j \in 1..(k - 1) : ~Raises(row, columns[j])]

SiteOf(row, col, index) ==
    [value |-> ColValue(row, col), field |-> col.field,
     data_type |-> ColType(col), position |-> index]

FailureSite(w) ==
    SiteOf(wlocal[w].row.items,
           FailingColumn(wlocal[w].row.items, yaml_config.columns),
           wlocal[w].index)

\* C9: the error of a failed strict coercion identifies the raw value, the
\* field, the target type and the position of the row: failures with the
\* same error are failures of the same value, field, type and position.
C9_ErrorIdentifiesSite ==
    \A w1, w2 \in Threads :
        wpc[w1] = "dead" /\ wpc[w2] = "dead" /\ wlocal[w1].exc = wlocal[w2].exc
            => FailureSite(w1) = FailureSite(w2)

\* C10: a column whose index is at or past the end of the row gets null
\* under nullable and the default otherwise, and is never the column that
\* makes the transformation fail.
C10_OutOfRangeIsAbsent ==
    JobDone /\ job.op = "process_row" =>
        /\ job.out.tag = "return" =>
              \A k \in 1..Len(job.columns) :
                  LET col == job.columns[k]
                  IN  /\ col.index >= Len(job.row)
                      /\ \A j \in (k + 1)..Len(job.columns) : job.columns[j].field # col.field
                      => job.out.val.d[col.field] =
                            IF ColPolicy(col) = "nullable" THEN NoneV ELSE ColDefault(col)
        /\ job.out.tag = "raise" =>
              \E k \in 1..Len(job.columns) :
                  /\ job.columns[k].index < Len(job.row)
                  /\ job.out.err.value = StrV(job.row[job.columns[k].index + 1])

\* A one-field row and a second column of index 2 with default 0.
C10_Witness ==
    /\ JobDone
    /\ job.op = "process_row"
    /\ job.row = << <<"7">> >>
    /\ Len(job.columns) = 2
    /\ job.columns[2].index = 2
    /\ ColDefault(job.columns[2]) = IntV(0)
    /\ ColPolicy(job.columns[2]) = "strict"
    /\ job.out.tag = "return"
    /\ job.out.val.d["b"] = IntV(0)

WorkersEnded == \A w \in Threads : wpc[w] \in {"exited", "dead"}

\* C11: when the reader has raised while the producer was reading, the
\* error has left the orchestrator, no output is written, and once nothing
\* more can happen every enqueued unit has been acknowledged and every
\* worker has ended: none waits on the queue.
C11_ReaderErrorEndsRun ==
    mainPc = "raised" /\ mainError.exc = "csv.Error" =>
        /\ ~OutputWritten
        /\ ~(ENABLED Next) => unfinished = 0 /\ WorkersEnded

\* C12: a slot of results that holds a record keeps that record in every
\* step of every run, also when the slot lies beyond the first
\* InitialCapacity slots.
C12_SlotWrittenOnce ==
    [][\A k \in 1..Len(results) :
          results[k] # NoneV => results'[k] = results[k]]_vars

\* C13: in every reachable state each slot of results is empty or holds
\* the record transformed from the input row at the slot's own index, also
\* at indices from InitialCapacity on and after skipped duplicates.
C13_SlotHoldsItsOwnRecord ==
    \A k \in 1..Len(results) :
        \/ results[k] = NoneV
        \/ /\ k - 1 < TotalRows
           /\ Return(results[k]) = TransformRow(InputRow(k - 1), yaml_config.columns)

\* C14: the output of a completed run has as many records as rows were
\* accepted, and the record of every accepted row is among them.
C14_OneRecordPerAcceptedRow ==
    mainPc = "done" =>
        /\ Len(output.items) = unique_row_count
        /\ \A k \in 1..Len(dispatched) :
              \E j \in 1..Len(output.items) : output.items[j] = ExpectedRecords[k]

\* The indices of the work units in the sequence s of queue items, in
\* order; the terminators are left out.
RECURSIVE UnitIndices(_)
UnitIndices(s) ==
    IF s = <<>> THEN <<>>
    ELSE (IF s[1].row # NoneV THEN <<s[1].index>> ELSE <<>>) \o UnitIndices(Tail(s))

\* The workers that have taken a unit and have not stored and acknowledged it.
Holding == {w \in Threads : wpc[w] \in {"check", "assign", "append", "dead"}}

UnitsPending == Len(UnitIndices(q)) + Cardinality(Holding)

TerminatorQueued == \E k \in 1..Len(q) : q[k] = Sentinel

\* C15: while a terminator is on the queue, and whenever a worker has
\* stopped, every row has been read and every submitted unit has been
\* stored and acknowledged.
C15_NoStopBeforeAllProcessed ==
    /\ TerminatorQueued => row_count = TotalRows /\ UnitsPending = 0 /\ ~AnyWorkerFailed
    /\ (\E w \in Threads : wpc[w] \in {"exited", "dead"}) =>
           row_count = TotalRows /\ UnitsPending = 0

\* C16: whenever the orchestrator is about to read results for the output,
\* or has read it, every worker thread has ended.
C16_ReadAfterWorkersEnded ==
    mainPc \in {"write", "done"} => WorkersEnded

\* The orchestrator is about to compact results of a run that stored
\* records, and all four workers have left their loops.
C16_Witness ==
    /\ mainPc = "write"
    /\ Len(rows) >= 2
    /\ Len(dispatched) >= 2
    /\ \A w \in Threads : wpc[w] = "exited"

\* C17: the units put on the queue are, in order, the units taken so far
\* followed by the units still on the queue; no index is taken twice and
\* no two workers hold the same unit.
C17_EachUnitTakenOnce ==
    /\ dispatched = taken \o UnitIndices(q)
    /\ \A k \in 1..(Len(taken) - 1) : taken[k] < taken[k + 1]
    /\ \A v, w \in Holding : v # w => wlocal[v].index # wlocal[w].index

\* Three units were put; two of them are held by two workers and the third
\* is still on the queue.
C17_Witness ==
    /\ nprefix = 0
    /\ Len(dispatched) = 3
    /\ Len(taken) = 2
    /\ Len(UnitIndices(q)) = 1
    /\ \E v, w \in Threads :
          /\ v # w
          /\ wpc[v] = "check" /\ wlocal[v].index = taken[1]
          /\ wpc[w] = "check" /\ wlocal[w].index = taken[2]

\* C19: between two iterations of the producer's loop, row_count is
\* unique_row_count plus ignored_rows, and unique_row_count is the number
\* of units put on the queue so far, whatever ignore_duplicates is.
C19_CountersAgree ==
    /\ row_count = unique_row_count + ignored_rows
    /\ unique_row_count = Len(dispatched)

\* With ignore_duplicates on, all rows of the tail have been read, some
\* were dispatched and some were skipped.
C19_Witness ==
    /\ IgnoreDuplicates(yaml_config) = TRUE
    /\ Len(rows) >= 2
    /\ row_count = TotalRows
    /\ ignored_rows > 0
    /\ unique_row_count > 1
    /\ Len(dispatched) = unique_row_count

\* With ignore_duplicates off, equal rows have been read, all dispatched.
C19_WitnessDisabled ==
    /\ IgnoreDuplicates(yaml_config) = FALSE
    /\ row_count = TotalRows
    /\ \E i, j \in 1..Len(rows) : i # j /\ rows[i] = rows[j]
    /\ ignored_rows = 0
    /\ unique_row_count = row_count

\* The run has ended: the output is written, the queue is empty and every
\* worker has left its loop on a terminator.
Terminated ==
    /\ mainPc = "done"
    /\ OutputWritten
    /\ q = <<>>
    /\ UnitsPending = 0
    /\ taken = dispatched
    /\ \A w \in Threads : wpc[w] = "exited"

\* C18: under fair scheduling a run in which no coercion fails and the
\* reader delivers every row terminates: every unit is processed, the four
\* terminators are taken one by each worker, the workers are joined and
\* the output is written; once written the output does not change.
C18_FairRunsTerminate ==
    /\ <>(AnyWorkerFailed \/ mainPc = "raised" \/ Terminated)
    /\ [][OutputWritten => output' = output]_vars

\* A run of three rows, the last two beyond the first InitialCapacity
\* positions, has terminated.
C18_Witness ==
    /\ Terminated
    /\ ~AnyWorkerFailed
    /\ Len(rows) >= 2
    /\ Len(dispatched) >= 2
=============================================================================
